---- MODULE Spec2Model ----
(***************************************************************************)
(* The text-to-structure extraction engine of the resume parser            *)
(* (src/main.py): extract_name, extract_email, extract_phone,              *)
(* extract_skills, extract_education, extract_experience,                  *)
(* extract_projects and the aggregation done by parse_resume.              *)
(*                                                                         *)
(* A text is a TLA+ string.  The extractors work on its characters, a      *)
(* sequence of one-character strings, and the regular expressions of the   *)
(* source are kept as syntax trees that a backtracking matcher runs with   *)
(* Python's priorities (leftmost start, alternatives in order, greedy and  *)
(* lazy repetition).  A Python value that may be None is <<>> (None) or    *)
(* <<v>> (the value v).                                                    *)
(***************************************************************************)
EXTENDS Integers, Sequences, FiniteSets, TLC

----------------------------------------------------------------------------
(* Characters and strings *)

Chars(str) == [k \in 1..Len(str) |-> SubSeq(str, k, k)]

\* ''.join(cs), by halves
RECURSIVE ToStr(_)
ToStr(cs) ==
    IF Len(cs) = 0 THEN ""
    ELSE IF Len(cs) = 1 THEN cs[1]
    ELSE ToStr(SubSeq(cs, 1, Len(cs) \div 2))
           \o ToStr(SubSeq(cs, Len(cs) \div 2 + 1, Len(cs)))

NL == "\n"

LowerSeq == Chars("abcdefghijklmnopqrstuvwxyz")
UpperSeq == Chars("ABCDEFGHIJKLMNOPQRSTUVWXYZ")
LowerLetters == {LowerSeq[k] : k \in DOMAIN LowerSeq}
UpperLetters == {UpperSeq[k] : k \in DOMAIN UpperSeq}
Letters == LowerLetters \cup UpperLetters
Digits == {"0", "1", "2", "3", "4", "5", "6", "7", "8", "9"}
\* \w and \s of Python's re, on the ASCII range
WordChars == Letters \cup Digits \cup {"_"}
SpaceChars == {" ", "\t", "\n", "\r", "\f"}

LowerOf == [c \in UpperLetters |-> LowerSeq[CHOOSE k \in DOMAIN UpperSeq : UpperSeq[k] = c]]
UpperOf == [c \in LowerLetters |-> UpperSeq[CHOOSE k \in DOMAIN LowerSeq : LowerSeq[k] = c]]

\* str.lower(), one character
LowerChar(c) == IF c \in UpperLetters THEN LowerOf[c] ELSE c
UpperChar(c) == IF c \in LowerLetters THEN UpperOf[c] ELSE c

\* str.lower()
Lower(cs) == [k \in 1..Len(cs) |-> LowerChar(cs[k])]

\* the index of the first character of cs, from k on, that is not in drop
RECURSIVE SkipLeft(_, _, _)
SkipLeft(cs, k, drop) ==
    IF k <= Len(cs) /\ cs[k] \in drop THEN SkipLeft(cs, k + 1, drop) ELSE k

\* the index of the last character of cs, up to k, that is not in drop
RECURSIVE SkipRight(_, _, _)
SkipRight(cs, k, drop) ==
    IF k >= 1 /\ cs[k] \in drop THEN SkipRight(cs, k - 1, drop) ELSE k

\* str.strip(chars)
StripChars(cs, drop) ==
    SubSeq(cs, SkipLeft(cs, 1, drop), SkipRight(cs, Len(cs), drop))

\* str.strip()
Strip(cs) == StripChars(cs, SpaceChars)

\* sub in cs
Contains(sub, cs) ==
    \/ Len(sub) = 0
    \/ \E k \in 1..(Len(cs) - Len(sub) + 1) :
           cs[k] = sub[1] /\ SubSeq(cs, k, k + Len(sub) - 1) = sub

\* any(x in cs for x in words)
ContainsAny(words, cs) == \E w \in DOMAIN words : Contains(Chars(words[w]), cs)

\* str.split('\n'): the pieces between the newlines, at least one piece
SplitLines(cs) ==
    LET breaks == {k \in 1..Len(cs) : cs[k] = NL}
        count == Cardinality(breaks)
        \* the position of the j-th newline; 0 before the first piece and
        \* Len(cs) + 1 after the last
        Break(j) == IF j = 0 THEN 0
                    ELSE IF j > count THEN Len(cs) + 1
                    ELSE CHOOSE b \in breaks : Cardinality({q \in breaks : q < b}) = j - 1
    IN [j \in 1..(count + 1) |-> SubSeq(cs, Break(j - 1) + 1, Break(j) - 1)]

\* '\n'.join(parts)
RECURSIVE JoinLines(_)
JoinLines(parts) ==
    IF Len(parts) = 0 THEN <<>>
    ELSE IF Len(parts) = 1 THEN parts[1]
    ELSE parts[1] \o <<NL>> \o JoinLines(Tail(parts))

\* Python's None and a value that is not None
None == <<>>
Some(v) == <<v>>

----------------------------------------------------------------------------
(* Regular expressions: syntax trees *)

Set(cs) == [t |-> "set", cs |-> cs]
Dot == [t |-> "dot"]
Cat(xs) == [t |-> "cat", xs |-> xs]
Alt(xs) == [t |-> "alt", xs |-> xs]
\* x{lo,hi} of a one-character pattern x; hi = -1 is no upper limit
Rep(x, lo, hi, greedy) == [t |-> "rep", x |-> x, lo |-> lo, hi |-> hi, g |-> greedy]
Star(x) == Rep(x, 0, -1, TRUE)
Plus(x) == Rep(x, 1, -1, TRUE)
Maybe(x) == Rep(x, 0, 1, TRUE)
LazyStar(x) == Rep(x, 0, -1, FALSE)
Opt(x) == Alt(<<x, Cat(<<>>)>>)
WB == [t |-> "wb"]
BOL == [t |-> "bol"]
EOS == [t |-> "eos"]
LookAhead(x) == [t |-> "la", x |-> x]
\* the start or the end of a capturing group
Mark == [t |-> "mark"]
Group(x) == Cat(<<Mark, x, Mark>>)
\* a literal string
Lit(str) == Cat([k \in 1..Len(str) |-> Set({SubSeq(str, k, k)})])
\* a string used as a pattern without escaping: "." is any character
Pat(str) == Cat([k \in 1..Len(str) |->
                  IF SubSeq(str, k, k) = "." THEN Dot ELSE Set({SubSeq(str, k, k)})])
\* the alternatives a|b|... of escaped literals, and of unescaped patterns
AltLit(words) == Alt([k \in DOMAIN words |-> Lit(words[k])])
AltPat(words) == Alt([k \in DOMAIN words |-> Pat(words[k])])

FAIL == <<>>

\* whether character c matches the class cs, under re.IGNORECASE when ic
InSet(c, cs, ic) ==
    \/ c \in cs
    \/ ic /\ (LowerChar(c) \in cs \/ UpperChar(c) \in cs)

OneChar(x, c, ic) ==
    IF x.t = "dot" THEN c # NL ELSE InSet(c, x.cs, ic)

\* the first position of a..b whose character does not match x, b + 1 if none
\* (the range is searched by halves, left half first)
RECURSIVE FirstMiss(_, _, _, _, _)
FirstMiss(x, s, a, b, ic) ==
    IF a > b THEN a
    ELSE IF a = b THEN (IF OneChar(x, s[a], ic) THEN a + 1 ELSE a)
    ELSE LET mid == (a + b) \div 2
             left == FirstMiss(x, s, a, mid, ic)
         IN IF left <= mid THEN left ELSE FirstMiss(x, s, mid + 1, b, ic)

\* how many characters from position i on match x, at most hi of them
RunLen(x, s, i, hi, ic) ==
    LET last == IF hi = -1 \/ i + hi - 1 > Len(s) THEN Len(s) ELSE i + hi - 1
    IN FirstMiss(x, s, i, last, ic) - i

AtWordBoundary(s, i) ==
    (i > 1 /\ s[i - 1] \in WordChars) # (i <= Len(s) /\ s[i] \in WordChars)

\* $ without re.MULTILINE: the end, or just before a final newline
AtEnd(s, i) == i = Len(s) + 1 \/ (i = Len(s) /\ s[i] = NL)

(***************************************************************************)
(* Match(k, s, i, ic): the first way, in the matcher's order of            *)
(* preference, to match the patterns of k one after the other from         *)
(* position i of s: <<m1, ..., mj, e>> where e is the position after the   *)
(* match and m1..mj the positions of the group marks passed, or FAIL.      *)
(***************************************************************************)
RECURSIVE Match(_, _, _, _)

\* the first position of a..b, from b down when greedy and from a up when
\* lazy, from which the patterns of k match (the range is searched by halves)
RECURSIVE TryEnds(_, _, _, _, _, _)
TryEnds(k, s, a, b, ic, greedy) ==
    IF a = b THEN Match(k, s, a, ic)
    ELSE LET mid == (a + b) \div 2
             first == IF greedy THEN TryEnds(k, s, mid + 1, b, ic, greedy)
                      ELSE TryEnds(k, s, a, mid, ic, greedy)
         IN IF first # FAIL THEN first
            ELSE IF greedy THEN TryEnds(k, s, a, mid, ic, greedy)
            ELSE TryEnds(k, s, mid + 1, b, ic, greedy)

Match(k, s, i, ic) ==
    IF Len(k) = 0 THEN <<i>>
    ELSE LET h == Head(k)
             r == Tail(k)
         IN CASE h.t \in {"set", "dot"} ->
                   IF i <= Len(s) /\ OneChar(h, s[i], ic)
                   THEN Match(r, s, i + 1, ic) ELSE FAIL
              [] h.t = "cat" -> Match(h.xs \o r, s, i, ic)
              [] h.t = "alt" ->
                   IF Len(h.xs) = 0 THEN FAIL
                   ELSE LET a == Match(<<Head(h.xs)>> \o r, s, i, ic)
                        IN IF a # FAIL THEN a
                           ELSE Match(<<Alt(Tail(h.xs))>> \o r, s, i, ic)
              [] h.t = "rep" ->
                   LET run == RunLen(h.x, s, i, h.hi, ic)
                   IN IF run < h.lo THEN FAIL
                      ELSE TryEnds(r, s, i + h.lo, i + run, ic, h.g)
              [] h.t = "wb" -> IF AtWordBoundary(s, i) THEN Match(r, s, i, ic) ELSE FAIL
              [] h.t = "bol" -> IF i = 1 THEN Match(r, s, i, ic) ELSE FAIL
              [] h.t = "eos" -> IF AtEnd(s, i) THEN Match(r, s, i, ic) ELSE FAIL
              [] h.t = "la" ->
                   IF Match(<<h.x>>, s, i, ic) # FAIL THEN Match(r, s, i, ic) ELSE FAIL
              [] h.t = "mark" ->
                   LET a == Match(r, s, i, ic)
                   IN IF a = FAIL THEN FAIL ELSE <<i>> \o a

\* the match of re that starts first in a..b: <<start, marks..., end>> or FAIL
\* (the range is searched by halves, left half first)
RECURSIVE SearchIn(_, _, _, _, _)
SearchIn(re, s, a, b, ic) ==
    IF a > b THEN FAIL
    ELSE IF a = b
    THEN LET m == Match(<<re>>, s, a, ic)
         IN IF m = FAIL THEN FAIL ELSE <<a>> \o m
    ELSE LET mid == (a + b) \div 2
             left == SearchIn(re, s, a, mid, ic)
         IN IF left # FAIL THEN left ELSE SearchIn(re, s, mid + 1, b, ic)

\* re.search from position `from`
SearchFrom(re, s, from, ic) == SearchIn(re, s, from, Len(s) + 1, ic)

Search(re, s, ic) == SearchFrom(re, s, 1, ic)

\* match.group(0)
Group0(s, m) == SubSeq(s, m[1], m[Len(m)] - 1)
\* the text between the marks at m[a] and m[b]
GroupAt(s, m, a, b) == SubSeq(s, m[a], m[b] - 1)

\* re.split by a pattern without capturing groups whose matches are not empty
RECURSIVE SplitBy(_, _, _, _)
SplitBy(re, s, from, ic) ==
    LET m == SearchFrom(re, s, from, ic)
    IN IF m = FAIL THEN <<SubSeq(s, from, Len(s))>>
       ELSE <<SubSeq(s, from, m[1] - 1)>> \o SplitBy(re, s, m[Len(m)], ic)

----------------------------------------------------------------------------
(* Identity extractors and skill matcher *)

NameLines == 5
NameMinLen == 5
NameMaxLen == 40
name_stop_words == <<"@", "http", "resume", "cv", "email", "phone">>

\* the test of extract_name on one line
NameCandidate(line) ==
    /\ NameMinLen < Len(line)
    /\ Len(line) < NameMaxLen
    /\ ~ContainsAny(name_stop_words, Lower(line))

RECURSIVE NameScan(_, _)
NameScan(lines, k) ==
    IF k > Len(lines) \/ k > NameLines THEN None
    ELSE IF NameCandidate(lines[k]) THEN Some(ToStr(Strip(lines[k])))
    ELSE NameScan(lines, k + 1)

extract_name(t) == NameScan(SplitLines(Chars(t)), 1)

\* [a-zA-Z0-9._%+-]+@[a-zA-Z0-9.-]+\.[a-zA-Z]{2,}
email_pattern ==
    Cat(<<Plus(Set(Letters \cup Digits \cup {".", "_", "%", "+", "-"})),
          Lit("@"),
          Plus(Set(Letters \cup Digits \cup {".", "-"})),
          Lit("."),
          Rep(Set(Letters), 2, -1, TRUE)>>)

\* match.group(0) if match else None
Group0OrNone(re, s, ic) ==
    LET m == Search(re, s, ic)
    IN IF m = FAIL THEN None ELSE Some(ToStr(Group0(s, m)))

extract_email(t) == Group0OrNone(email_pattern, Chars(t), FALSE)

PhoneSep == Maybe(Set({"-", "."} \cup SpaceChars))

\* (\+\d{1,3}[-.\s]?)?(\(?\d{3}\)?[-.\s]?\d{3}[-.\s]?\d{4})
phone_pattern ==
    Cat(<<Opt(Cat(<<Lit("+"), Rep(Set(Digits), 1, 3, TRUE), PhoneSep>>)),
          Maybe(Set({"("})), Rep(Set(Digits), 3, 3, TRUE), Maybe(Set({")"})),
          PhoneSep, Rep(Set(Digits), 3, 3, TRUE),
          PhoneSep, Rep(Set(Digits), 4, 4, TRUE)>>)

extract_phone(t) == Group0OrNone(phone_pattern, Chars(t), FALSE)

skill_keywords ==
    <<"python", "javascript", "react", "angular", "vue", "node.js", "express",
      "mongodb", "sql", "mysql", "postgresql", "nosql", "firebase", "aws", "azure",
      "gcp", "docker", "kubernetes", "ci/cd", "jenkins", "git", "github", "gitlab",
      "html", "css", "sass", "less", "bootstrap", "tailwind", "typescript",
      "java", "c++", "c#", ".net", "php", "ruby", "go", "rust", "swift",
      "android", "ios", "flutter", "react native", "electron",
      "machine learning", "deep learning", "ai", "data science", "data analysis",
      "tensorflow", "pytorch", "keras", "scikit-learn", "pandas", "numpy",
      "agile", "scrum", "kanban", "jira", "confluence",
      "communication", "leadership", "project management", "team work",
      "problem solving", "critical thinking", "time management">>

\* re.search(r'\b' + re.escape(skill) + r'\b', text.lower())
\* SkillFound without the two \b: the skill as a substring
SkillFoundAnywhere(skill, lowered) == Contains(Chars(skill), lowered)

\* (the escaped skill is a literal: it is found where its characters stand
\* between two word boundaries)
SkillFound(skill, lowered) ==
    LET w == Chars(skill)
    IN \E p \in 1..(Len(lowered) - Len(w) + 1) :
           /\ lowered[p] = w[1]
           /\ SubSeq(lowered, p, p + Len(w) - 1) = w
           /\ AtWordBoundary(lowered, p)
           /\ AtWordBoundary(lowered, p + Len(w))

extract_skills(t) ==
    LET lowered == Lower(Chars(t))
    IN SelectSeq(skill_keywords, LAMBDA skill : SkillFound(skill, lowered))

----------------------------------------------------------------------------
(* Section segmenter: one iteration of a "for i, line in enumerate(lines)" *)

HeaderMaxLen == 30

education_indicators ==
    <<"education", "academic", "degree", "university", "college", "school", "institute">>
education_terminators ==
    <<"experience", "work", "employment", "professional", "projects", "skills">>
experience_indicators ==
    <<"experience", "employment", "work history", "professional experience", "career">>
experience_terminators == <<"education", "projects", "skills", "certifications">>
project_indicators == <<"projects", "personal projects", "academic projects">>
project_terminators == <<"experience", "education", "skills", "certifications">>

\* line.lower().strip()
LineLower(line) == Strip(Lower(line))

(***************************************************************************)
(* The branch one iteration takes: "header" (the section opens or stays    *)
(* open, the line is appended, continue), "end" (the section closes,       *)
(* break), "add" (the line is appended) or "skip" (nothing happens).       *)
(***************************************************************************)
SectionBranch(indicators, terminators, in_section, line) ==
    LET line_lower == LineLower(line)
    IN IF ContainsAny(indicators, line_lower) /\ Len(line_lower) < HeaderMaxLen
       THEN "header"
       ELSE IF /\ in_section
               /\ Len(line_lower) > 0
               /\ Len(line_lower) < HeaderMaxLen
               /\ ContainsAny(terminators, line_lower)
       THEN "end"
       ELSE IF in_section /\ Len(Strip(line)) > 0 THEN "add"
       ELSE "skip"

\* in_section after the iteration
InSectionAfter(branch, in_section) ==
    CASE branch = "header" -> TRUE
      [] branch = "end" -> FALSE
      [] OTHER -> in_section

\* section_text after the iteration: section_text += line + "\n"
SectionTextAfter(branch, section_text, line) ==
    IF branch \in {"header", "add"} THEN section_text \o ToStr(line) \o NL
    ELSE section_text

\* LoopNext without the break: the loop reads on after the section closed
LoopNextNoBreak(branch, idx, n) == idx + 1

\* the index of the next line to read, n + 1 when the loop is left (break)
LoopNext(branch, idx, n) == IF branch = "end" THEN n + 1 ELSE idx + 1

----------------------------------------------------------------------------
(* Education entries *)

\* a floor of half the length
EducationFloorHalved == 10 \div 2

EducationFloor == 10

degree_indicators ==
    <<"bachelor", "master", "phd", "b.tech", "m.tech", "b.e", "m.e", "mba",
      "b.sc", "m.sc", "b.com", "m.com", "b.a", "m.a">>

Digits4 == Rep(Set(Digits), 4, 4, TRUE)
Digits2 == Rep(Set(Digits), 2, 2, TRUE)

\* \n(?=\d{4}|\b(?:bachelor|...|m.a)\b)
education_split_pattern ==
    Cat(<<Lit(NL),
          LookAhead(Alt(<<Digits4, Cat(<<WB, AltPat(degree_indicators), WB>>)>>))>>)

\* \b<indicator>[s]?\b.*?(?:\n|$)
DegreePattern(indicator) ==
    Cat(<<WB, Pat(indicator), Maybe(Set({"s"})), WB, LazyStar(Dot),
          Alt(<<Lit(NL), EOS>>)>>)

\* the first indicator, in order, whose pattern matches: match.group(0).strip()
RECURSIVE FindDegree(_, _)
FindDegree(entry, k) ==
    IF k > Len(degree_indicators) THEN None
    ELSE LET m == Search(DegreePattern(degree_indicators[k]), entry, TRUE)
         IN IF m # FAIL THEN Some(ToStr(Strip(Group0(entry, m))))
            ELSE FindDegree(entry, k + 1)

InstitutionWord == AltLit(<<"university", "college", "institute", "school">>)
WordOrSpace == Set(WordChars \cup SpaceChars)

institution_patterns ==
    <<Cat(<<WB, InstitutionWord, Lit(" of "), Plus(WordOrSpace)>>),
      Cat(<<Plus(WordOrSpace), Lit(" "), InstitutionWord, WB>>)>>

RECURSIVE FindInstitution(_, _)
FindInstitution(entry, k) ==
    IF k > Len(institution_patterns) THEN None
    ELSE LET m == Search(institution_patterns[k], entry, TRUE)
         IN IF m # FAIL THEN Some(ToStr(Strip(Group0(entry, m))))
            ELSE FindInstitution(entry, k + 1)

Year4 == Alt(<<Cat(<<WB, Lit("20"), Digits2, WB>>), Cat(<<WB, Lit("19"), Digits2, WB>>)>>)

\* (\b20\d{2}\b|\b19\d{2}\b)(?:\s*-\s*(?:\b20\d{2}\b|\b19\d{2}\b|present|current|now))?
year_pattern ==
    Cat(<<Year4,
          Opt(Cat(<<Star(Set(SpaceChars)), Lit("-"), Star(Set(SpaceChars)),
                    Alt(<<Year4, Lit("present"), Lit("current"), Lit("now")>>)>>))>>)

\* Python's truth of an optional string: not None and not empty
Truthy(v) == v # None /\ v[1] # ""

\* "v if v is not None else sentinel": an empty string is kept
OrElseNotNone(v, sentinel) == IF v # None THEN v[1] ELSE sentinel

\* v or sentinel
OrElse(v, sentinel) == IF Truthy(v) THEN v[1] ELSE sentinel

\* the records one education entry appends: none or one
EducationRecords(entry) ==
    IF Len(Strip(entry)) < EducationFloor THEN <<>>
    ELSE LET degree == FindDegree(entry, 1)
             institution == FindInstitution(entry, 1)
             year == Group0OrNone(year_pattern, entry, TRUE)
         IN IF Truthy(degree) \/ Truthy(institution)
            THEN <<[degree |-> OrElse(degree, "Degree not specified"),
                    institution |-> OrElse(institution, "Institution not specified"),
                    year |-> OrElse(year, "Year not specified")]>>
            ELSE <<>>

\* entries = re.split(...), or no entry for an empty section text
EducationEntries(section_text) ==
    IF section_text = "" THEN <<>>
    ELSE SplitBy(education_split_pattern, Chars(section_text), 1, FALSE)

RECURSIVE EducationOf(_, _)
EducationOf(entries, k) ==
    IF k > Len(entries) THEN <<>>
    ELSE EducationRecords(entries[k]) \o EducationOf(entries, k + 1)

----------------------------------------------------------------------------
(* Experience entries *)

ExperienceFloor == 15

\* The en dash, the em dash and the bullet are outside the characters a
\* string of this module can hold; each is one character with a name.
EnDash == "U+2013"
EmDash == "U+2014"
Bullet == "U+2022"

months ==
    <<"jan", "feb", "mar", "apr", "may", "jun", "jul", "aug", "sep", "oct", "nov", "dec">>

\* x, or (x) when the pattern is written with capturing groups
MaybeGroup(x, grouped) == IF grouped THEN Group(x) ELSE x

\* (jan|...|dec)[a-z]* \d{4}
MonthYear(grouped) ==
    Cat(<<MaybeGroup(AltLit(months), grouped), Star(Set(LowerLetters)), Lit(" "), Digits4>>)

\* \s*[-–—]\s*
DashSep ==
    Cat(<<Star(Set(SpaceChars)), Set({"-", EnDash, EmDash}), Star(Set(SpaceChars))>>)

\* \b<month> \d{4}\s*[-–—]\s*<month> \d{4}|\b\d{4}\s*[-–—]\s*\d{4}
\*   |\b\d{4}\s*[-–—]\s*(present|current|now)\b
DateRange(grouped) ==
    Alt(<<Cat(<<WB, MonthYear(grouped), DashSep, MonthYear(grouped)>>),
          Cat(<<WB, Digits4, DashSep, Digits4>>),
          Cat(<<WB, Digits4, DashSep,
                MaybeGroup(AltLit(<<"present", "current", "now">>), grouped), WB>>)>>)

date_pattern == DateRange(TRUE)
duration_pattern == DateRange(FALSE)

(***************************************************************************)
(* What re.split puts in the list for one match m of date_pattern: its     *)
(* three groups, None for a group that took no part in the match.  The     *)
(* first alternative passes four marks, the second none, the third two.    *)
(***************************************************************************)
DateGroups(s, m) ==
    CASE Len(m) = 6 -> <<Some(GroupAt(s, m, 2, 3)), Some(GroupAt(s, m, 4, 5)), None>>
      [] Len(m) = 4 -> <<None, None, Some(GroupAt(s, m, 2, 3))>>
      [] OTHER -> <<None, None, None>>

\* re.split(date_pattern, s, flags=re.IGNORECASE): strings and Nones
RECURSIVE SplitDates(_, _)
SplitDates(s, from) ==
    LET m == SearchFrom(date_pattern, s, from, TRUE)
    IN IF m = FAIL THEN <<Some(SubSeq(s, from, Len(s)))>>
       ELSE <<Some(SubSeq(s, from, m[1] - 1))>> \o DateGroups(s, m)
                \o SplitDates(s, m[Len(m)])

\* \n(?=.*\b(?:19|20)\d{2}\b)
year_line_pattern ==
    Cat(<<Lit(NL),
          LookAhead(Cat(<<Star(Dot), WB, Alt(<<Lit("19"), Lit("20")>>), Digits2, WB>>))>>)

AllSome(pieces) == [k \in DOMAIN pieces |-> Some(pieces[k])]

\* entries of extract_experience, or no entry for an empty section text
ExperienceEntries(section_text) ==
    IF section_text = "" THEN <<>>
    ELSE LET s == Chars(section_text)
             entries == SplitDates(s, 1)
         IN IF Len(entries) <= 1
            THEN AllSome(SplitBy(year_line_pattern, s, 1, FALSE))
            ELSE entries

role_nouns ==
    <<"Developer", "Engineer", "Manager", "Designer", "Analyst", "Consultant",
      "Director", "Lead", "Architect", "Specialist", "Intern">>

\* ^([A-Z][A-Za-z\s]{2,30}(?:Developer|...|Intern))
title_pattern ==
    Cat(<<BOL, Set(UpperLetters), Rep(Set(Letters \cup SpaceChars), 2, 30, TRUE),
          AltLit(role_nouns)>>)

\* (?:at|with|for) ([\w\s]+) ; ^([\w\s]+) (?:Inc\.|LLC|Ltd\.) ; ^([\w\s,]+)(?:\n|$)
company_patterns ==
    <<Cat(<<AltLit(<<"at", "with", "for">>), Lit(" "), Group(Plus(WordOrSpace))>>),
      Cat(<<BOL, Group(Plus(WordOrSpace)), Lit(" "),
            AltLit(<<"Inc.", "LLC", "Ltd.">>)>>),
      Cat(<<BOL, Group(Plus(Set(WordChars \cup SpaceChars \cup {","}))),
            Alt(<<Lit(NL), EOS>>)>>)>>

\* the first pattern, in order, that matches: match.group(1).strip()
RECURSIVE FindCompany(_, _)
FindCompany(entry, k) ==
    IF k > Len(company_patterns) THEN None
    ELSE LET m == Search(company_patterns[k], entry, FALSE)
         IN IF m # FAIL THEN Some(ToStr(Strip(GroupAt(entry, m, 2, 3))))
            ELSE FindCompany(entry, k + 1)

FindTitle(entry) ==
    LET m == Search(title_pattern, entry, FALSE)
    IN IF m = FAIL THEN None ELSE Some(ToStr(Strip(Group0(entry, m))))

experience_labels == {"experience", "work experience", "employment history"}

\* the records one experience entry (a string) appends: none or one
ExperienceRecords(entry) ==
    IF \/ Len(Strip(entry)) < ExperienceFloor
       \/ ToStr(Lower(Strip(entry))) \in experience_labels
    THEN <<>>
    ELSE LET title == FindTitle(entry)
             company == FindCompany(entry, 1)
             duration == Group0OrNone(duration_pattern, entry, TRUE)
         IN IF Truthy(title) \/ Truthy(company)
            THEN <<[title |-> OrElse(title, "Position not specified"),
                    company |-> OrElse(company, "Company not specified"),
                    duration |-> OrElse(duration, "Duration not specified")]>>
            ELSE <<>>

(***************************************************************************)
(* The loop over the entries.  entry.strip() on an entry that is None      *)
(* raises AttributeError: the loop ends there and nothing is returned.     *)
(***************************************************************************)
RECURSIVE ExperienceOf(_, _, _)
ExperienceOf(entries, k, acc) ==
    IF k > Len(entries) THEN [raised |-> FALSE, records |-> acc]
    ELSE IF entries[k] = None THEN [raised |-> TRUE, records |-> acc]
    ELSE ExperienceOf(entries, k + 1, acc \o ExperienceRecords(entries[k][1]))

----------------------------------------------------------------------------
(* Project entries *)

ProjectFloor == 15

\* \n(?=•|\*|\-|\d+\.|\d+\)|\w+:)
project_split_pattern ==
    Cat(<<Lit(NL),
          LookAhead(Alt(<<Set({Bullet}), Lit("*"), Lit("-"),
                          Cat(<<Plus(Set(Digits)), Lit(".")>>),
                          Cat(<<Plus(Set(Digits)), Lit(")")>>),
                          Cat(<<Plus(Set(WordChars)), Lit(":")>>)>>))>>)

project_labels == {"projects", "personal projects", "academic projects"}

\* the records one project entry appends: none or one
ProjectRecords(raw) ==
    LET entry == Strip(raw)
    IN IF Len(entry) < ProjectFloor \/ ToStr(Lower(entry)) \in project_labels
       THEN <<>>
       ELSE LET lines == SplitLines(entry)
                name == StripChars(lines[1], {Bullet, "*", "-", "\t", " ", ".", ")"})
                description == IF Len(lines) > 1 THEN Strip(JoinLines(Tail(lines)))
                               ELSE <<>>
            IN IF Len(name) > 0
               THEN <<[name |-> ToStr(name), description |-> ToStr(description)]>>
               ELSE <<>>

ProjectEntries(section_text) ==
    IF section_text = "" THEN <<>>
    ELSE SplitBy(project_split_pattern, Chars(section_text), 1, FALSE)

RECURSIVE ProjectsOf(_, _)
ProjectsOf(entries, k) ==
    IF k > Len(entries) THEN <<>>
    ELSE ProjectRecords(entries[k]) \o ProjectsOf(entries, k + 1)

----------------------------------------------------------------------------
(* The texts the extractors are run on *)

\* the most lines of a text put together from LinePool
MaxLines == 2

LinePool ==
    <<"Education", "Experience", "School Projects", "Software Engineer at Acme Corp",
      "2020 - Present", "State University", "", "python javascript leadership",
      "  Bob  ", "Lead Designer for ">>

JaneSmithText ==
    "Jane Smith\njane.smith@mail.com\n555-222-3344\n\nEducation\nBS Computer Science\nState University\n2019\n\nExperience\nSoftware Engineer at Acme Corp\n2020 - Present\n"

SkillsOnlyText == "python javascript leadership"

Scenarios ==
    {JaneSmithText,
     "hi\n\n", "python", "a@b.cc", "John Doe", "x college", "12-34-567",
     "Education\nUniversity of Example\nExperience\nIntern at Example Labs",
     "Education\nState University\nExperience\nEducation\nBachelor of Science",
     "Projects\n- Resume parser tool\nbuilt with python\nSkills\nAcademic Projects\n* another one",
     "Experience\nSoftware Engineer at Acme Corp\n2019 - 2021\n",
     "Experience\nData Analyst with Foo\nJan 2019 - Feb 2020\nIntern\n",
     "Experience\nSenior Developer\nAcme Inc. 2018\nEducation\nCareer\n2001",
     "Education\nBachelor of Science\nState University\n2015 - 2019\nM.Tech in AI 2021",
     "Projects\n1. Chat app: a sockets demo\nnotes: misc\n* item two is long enough",
     "Work Experience\nTeam Lead for \n\nProjects"}

RECURSIVE JoinText(_)
JoinText(ls) ==
    IF Len(ls) = 0 THEN ""
    ELSE IF Len(ls) = 1 THEN ls[1]
    ELSE ls[1] \o NL \o JoinText(Tail(ls))

Documents ==
    Scenarios \cup
    {JoinText([k \in DOMAIN d |-> LinePool[d[k]]]) :
        d \in UNION {[1..n -> DOMAIN LinePool] : n \in 1..MaxLines}}

----------------------------------------------------------------------------
(* parse_resume from "Extract information from the text" on *)

VARIABLES
    text,                       \* the text of the document
    pc,                         \* the call parse_resume is at
    i,                          \* the line a section loop reads next, from 1
    name, email, phone, skills, education, experience, projects,
    in_education_section, education_section_text, education_entries,
    in_experience_section, experience_section_text, experience_entries,
    in_project_section, project_section_text, project_entries,
    education_lines, experience_lines, project_lines,   \* positions of the lines appended
    parsed_data                 \* the response, None until it is made

vars ==
    <<text, pc, i, name, email, phone, skills, education, experience, projects,
      in_education_section, education_section_text, education_entries,
      in_experience_section, experience_section_text, experience_entries,
      in_project_section, project_section_text, project_entries,
      education_lines, experience_lines, project_lines, parsed_data>>

identity_vars == <<name, email, phone, skills>>
education_vars ==
    <<in_education_section, education_section_text, education_entries,
      education_lines, education>>
experience_vars ==
    <<in_experience_section, experience_section_text, experience_entries,
      experience_lines, experience>>
project_vars ==
    <<in_project_section, project_section_text, project_entries,
      project_lines, projects>>

\* lines = text.split('\n')
lines == SplitLines(Chars(text))

Init ==
    /\ text \in Documents
    /\ pc = "extract_name"
    /\ i = 1
    /\ name = None /\ email = None /\ phone = None
    /\ skills = <<>> /\ education = <<>> /\ experience = <<>> /\ projects = <<>>
    /\ in_education_section = FALSE /\ education_section_text = ""
    /\ in_experience_section = FALSE /\ experience_section_text = ""
    /\ in_project_section = FALSE /\ project_section_text = ""
    /\ education_entries = <<>> /\ experience_entries = <<>> /\ project_entries = <<>>
    /\ education_lines = {} /\ experience_lines = {} /\ project_lines = {}
    /\ parsed_data = None

ExtractName ==
    /\ pc = "extract_name"
    /\ name' = extract_name(text)
    /\ pc' = "extract_email"
    /\ UNCHANGED <<text, i, email, phone, skills, education_vars, experience_vars,
                   project_vars, parsed_data>>

ExtractEmail ==
    /\ pc = "extract_email"
    /\ email' = extract_email(text)
    /\ pc' = "extract_phone"
    /\ UNCHANGED <<text, i, name, phone, skills, education_vars, experience_vars,
                   project_vars, parsed_data>>

ExtractPhone ==
    /\ pc = "extract_phone"
    /\ phone' = extract_phone(text)
    /\ pc' = "extract_skills"
    /\ UNCHANGED <<text, i, name, email, skills, education_vars, experience_vars,
                   project_vars, parsed_data>>

ExtractSkills ==
    /\ pc = "extract_skills"
    /\ skills' = extract_skills(text)
    /\ pc' = "extract_education"
    /\ UNCHANGED <<text, i, name, email, phone, education_vars, experience_vars,
                   project_vars, parsed_data>>

\* one iteration of the loop of extract_education
EducationLine ==
    /\ pc = "extract_education"
    /\ i <= Len(lines)
    /\ LET ls == lines
           line == ls[i]
           branch == SectionBranch(education_indicators, education_terminators,
                                   in_education_section, line)
       IN /\ in_education_section' = InSectionAfter(branch, in_education_section)
          /\ education_section_text' =
                 SectionTextAfter(branch, education_section_text, line)
          /\ education_lines' = IF branch \in {"header", "add"}
                                THEN education_lines \cup {i} ELSE education_lines
          /\ i' = LoopNext(branch, i, Len(ls))
    /\ UNCHANGED <<text, pc, identity_vars, education_entries, education,
                   experience_vars, project_vars, parsed_data>>

\* "Process education section", and the return to parse_resume
EducationProcess ==
    /\ pc = "extract_education"
    /\ i > Len(lines)
    /\ LET entries == EducationEntries(education_section_text)
       IN /\ education_entries' = [k \in DOMAIN entries |-> ToStr(entries[k])]
          /\ education' = EducationOf(entries, 1)
    /\ pc' = "extract_experience"
    /\ i' = 1
    /\ UNCHANGED <<text, identity_vars, in_education_section, education_section_text,
                   education_lines, experience_vars, project_vars, parsed_data>>

\* one iteration of the loop of extract_experience
ExperienceLine ==
    /\ pc = "extract_experience"
    /\ i <= Len(lines)
    /\ LET ls == lines
           line == ls[i]
           branch == SectionBranch(experience_indicators, experience_terminators,
                                   in_experience_section, line)
       IN /\ in_experience_section' = InSectionAfter(branch, in_experience_section)
          /\ experience_section_text' =
                 SectionTextAfter(branch, experience_section_text, line)
          /\ experience_lines' = IF branch \in {"header", "add"}
                                 THEN experience_lines \cup {i} ELSE experience_lines
          /\ i' = LoopNext(branch, i, Len(ls))
    /\ UNCHANGED <<text, pc, identity_vars, experience_entries, experience,
                   education_vars, project_vars, parsed_data>>

(***************************************************************************)
(* "Process experience section".  An AttributeError leaves                 *)
(* extract_experience and is caught by parse_resume's "except Exception",  *)
(* which answers with an HTTP 500: no parsed data is returned.             *)
(***************************************************************************)
ExperienceProcess ==
    /\ pc = "extract_experience"
    /\ i > Len(lines)
    /\ LET entries == ExperienceEntries(experience_section_text)
           result == ExperienceOf(entries, 1, <<>>)
       IN /\ experience_entries' =
                 [k \in DOMAIN entries |->
                     IF entries[k] = None THEN None ELSE Some(ToStr(entries[k][1]))]
          /\ experience' = IF result.raised THEN experience ELSE result.records
          /\ pc' = IF result.raised THEN "raised" ELSE "extract_projects"
    /\ i' = 1
    /\ UNCHANGED <<text, identity_vars, in_experience_section, experience_section_text,
                   experience_lines, education_vars, project_vars, parsed_data>>

\* one iteration of the loop of extract_projects
ProjectLine ==
    /\ pc = "extract_projects"
    /\ i <= Len(lines)
    /\ LET ls == lines
           line == ls[i]
           branch == SectionBranch(project_indicators, project_terminators,
                                   in_project_section, line)
       IN /\ in_project_section' = InSectionAfter(branch, in_project_section)
          /\ project_section_text' =
                 SectionTextAfter(branch, project_section_text, line)
          /\ project_lines' = IF branch \in {"header", "add"}
                              THEN project_lines \cup {i} ELSE project_lines
          /\ i' = LoopNext(branch, i, Len(ls))
    /\ UNCHANGED <<text, pc, identity_vars, project_entries, projects,
                   education_vars, experience_vars, parsed_data>>

\* "Process project section", and the return to parse_resume
ProjectProcess ==
    /\ pc = "extract_projects"
    /\ i > Len(lines)
    /\ LET entries == ProjectEntries(project_section_text)
       IN /\ project_entries' = [k \in DOMAIN entries |-> ToStr(entries[k])]
          /\ projects' = ProjectsOf(entries, 1)
    /\ pc' = "aggregate"
    /\ i' = 1
    /\ UNCHANGED <<text, identity_vars, in_project_section, project_section_text,
                   project_lines, education_vars, experience_vars, parsed_data>>

\* "Create response"
Aggregate ==
    /\ pc = "aggregate"
    /\ parsed_data' = Some([name |-> name, email |-> email, phone |-> phone,
                            skills |-> skills, education |-> education,
                            experience |-> experience, projects |-> projects])
    /\ pc' = "done"
    /\ UNCHANGED <<text, i, identity_vars, education_vars, experience_vars, project_vars>>

Next ==
    \/ ExtractName
    \/ ExtractEmail
    \/ ExtractPhone
    \/ ExtractSkills
    \/ EducationLine
    \/ EducationProcess
    \/ ExperienceLine
    \/ ExperienceProcess
    \/ ProjectLine
    \/ ProjectProcess
    \/ Aggregate

Spec == Init /\ [][Next]_vars

----------------------------------------------------------------------------
(* Properties *)

Steps ==
    <<"extract_name", "extract_email", "extract_phone", "extract_skills",
      "extract_education", "extract_experience", "extract_projects", "aggregate", "done">>

StepOf(p) == CHOOSE k \in DOMAIN Steps : Steps[k] = p

\* the call `step` has returned (after an exception nothing more is called)
Returned(step) ==
    IF pc = "raised" THEN StepOf(step) < StepOf("extract_experience")
    ELSE StepOf(pc) > StepOf(step)

\* the entries of extract_experience have been split
ExperienceSplitDone == pc = "raised" \/ Returned("extract_experience")

HasText(sub, str) == Contains(Chars(sub), Chars(str))

EmptyResume ==
    [name |-> None, email |-> None, phone |-> None, skills |-> <<>>,
     education |-> <<>>, experience |-> <<>>, projects |-> <<>>]

\* C1: for every text the extraction completes and never raises.
C1_NeverRaises == pc # "raised"

\* C2: no line position of the text is appended to more than one of the
\* Education, Experience and Projects sections.
C2_SectionDisjointness ==
    /\ education_lines \cap experience_lines = {}
    /\ education_lines \cap project_lines = {}
    /\ experience_lines \cap project_lines = {}

\* C3: for the Jane Smith text nothing raises, name, email and phone are
\* "Jane Smith", "jane.smith@mail.com" and "555-222-3344", there is exactly
\* one education record, whose year contains "2019", and exactly one
\* experience record, whose company mentions "Acme" and whose duration
\* contains "2020" and "Present".
C3_JaneSmithScenario ==
    text = JaneSmithText =>
        /\ pc # "raised"
        /\ Returned("extract_name") => name = Some("Jane Smith")
        /\ Returned("extract_email") => email = Some("jane.smith@mail.com")
        /\ Returned("extract_phone") => phone = Some("555-222-3344")
        /\ Returned("extract_education") =>
              /\ Len(education) = 1
              /\ HasText("2019", education[1].year)
        /\ Returned("extract_experience") =>
              /\ Len(experience) = 1
              /\ HasText("Acme", experience[1].company)
              /\ HasText("2020", experience[1].duration)
              /\ HasText("Present", experience[1].duration)

\* C4, as amended: for the text "python javascript leadership" the skills
\* are exactly python, javascript, leadership in vocabulary order, the name
\* is the line itself, and every other field is null or empty.
C4_SkillsOnlyAmended ==
    (text = SkillsOnlyText /\ pc = "done") =>
        parsed_data =
            Some([EmptyResume EXCEPT !.name = Some(SkillsOnlyText),
                                     !.skills = <<"python", "javascript", "leadership">>])

\* C4, as claimed: the same with name = null.
C4_SkillsOnlyOriginal ==
    (text = SkillsOnlyText /\ pc = "done") =>
        parsed_data =
            Some([EmptyResume EXCEPT !.skills = <<"python", "javascript", "leadership">>])

C4_Witness ==
    /\ text = SkillsOnlyText
    /\ pc = "done"
    /\ Len(skills) = 3

\* the floor parse_resume puts on the text before it calls the extractors
CallerMinLen == 10

\* C5, as amended: for every text shorter than 10 characters the extractors
\* do not raise and return phone = null and no education, experience or
\* project record; for "hi\n\n" every field is null or empty.
C5_ShortTextAmended ==
    Len(text) < CallerMinLen =>
        /\ pc # "raised"
        /\ pc = "done" =>
              /\ parsed_data[1].phone = None
              /\ parsed_data[1].education = <<>>
              /\ parsed_data[1].experience = <<>>
              /\ parsed_data[1].projects = <<>>
              /\ text = "hi\n\n" => parsed_data = Some(EmptyResume)

\* C5, as claimed: for every text shorter than 10 characters every field of
\* the result is null or empty.
C5_ShortTextOriginal ==
    (Len(text) < CallerMinLen /\ pc = "done") => parsed_data = Some(EmptyResume)

C5_Witness ==
    /\ Len(text) < CallerMinLen
    /\ pc = "done"
    /\ parsed_data[1].name # None
    /\ parsed_data[1].education = <<>>

\* C6: every education record has a non-empty degree, institution and year,
\* and every experience record a non-empty title, company and duration.
C6_SentinelCompleteness ==
    /\ \A k \in DOMAIN education :
          education[k].degree # "" /\ education[k].institution # ""
              /\ education[k].year # ""
    /\ \A k \in DOMAIN experience :
          experience[k].title # "" /\ experience[k].company # ""
              /\ experience[k].duration # ""

\* an experience record holds the company sentinel for an entry whose
\* company pattern matched with an empty stripped capture
C6_Witness ==
    /\ pc = "done"
    /\ \E k \in DOMAIN experience : experience[k].company = "Company not specified"
    /\ \E k \in DOMAIN experience_entries :
          /\ experience_entries[k] # None
          /\ FindCompany(Chars(experience_entries[k][1]), 1) = Some("")
          /\ ExperienceRecords(Chars(experience_entries[k][1])) # <<>>

\* the rule of C7 on one line: the length is that of the trimmed line
TrimmedNameCandidate(line) ==
    /\ NameMinLen < Len(Strip(line))
    /\ Len(Strip(line)) < NameMaxLen
    /\ ~ContainsAny(name_stop_words, Lower(line))

RECURSIVE TrimmedNameScan(_, _)
TrimmedNameScan(ls, k) ==
    IF k > Len(ls) \/ k > NameLines THEN None
    ELSE IF TrimmedNameCandidate(ls[k]) THEN Some(ToStr(Strip(ls[k])))
    ELSE TrimmedNameScan(ls, k + 1)

\* C7: the name is the first of the first 5 lines whose trimmed length is
\* strictly between 5 and 40 and which holds no stop word, else null.
C7_NameByTrimmedLength ==
    Returned("extract_name") => name = TrimmedNameScan(lines, 1)

\* a non-empty line of fewer than 30 trimmed characters with one of terminators
TerminatorLine(terminators, line) ==
    /\ Len(LineLower(line)) > 0
    /\ Len(LineLower(line)) < HeaderMaxLen
    /\ ContainsAny(terminators, LineLower(line))

\* C8: while the section of a kind is open, a line that is non-empty, short
\* and holds one of the kind's termination keywords closes the section and
\* is not appended to its text.
C8_TerminatorCloses ==
    [][/\ (/\ pc = "extract_education" /\ i <= Len(lines) /\ in_education_section
           /\ TerminatorLine(education_terminators, lines[i]))
          => (~in_education_section'
                /\ education_section_text' = education_section_text)
       /\ (/\ pc = "extract_experience" /\ i <= Len(lines) /\ in_experience_section
           /\ TerminatorLine(experience_terminators, lines[i]))
          => (~in_experience_section'
                /\ experience_section_text' = experience_section_text)
       /\ (/\ pc = "extract_projects" /\ i <= Len(lines) /\ in_project_section
           /\ TerminatorLine(project_terminators, lines[i]))
          => (~in_project_section'
                /\ project_section_text' = project_section_text)]_vars

\* C9: once the section of a kind has been opened and closed, it stays
\* closed and no line is appended to its text any more.
C9_ClosedIsTerminal ==
    [][/\ (~in_education_section /\ education_section_text # "")
          => (~in_education_section'
                /\ education_section_text' = education_section_text)
       /\ (~in_experience_section /\ experience_section_text # "")
          => (~in_experience_section'
                /\ experience_section_text' = experience_section_text)
       /\ (~in_project_section /\ project_section_text # "")
          => (~in_project_section'
                /\ project_section_text' = project_section_text)]_vars

\* the Education section was opened and closed, and a header candidate for
\* Education stands after the line that closed it
C9_Witness ==
    /\ pc = "done"
    /\ ~in_education_section
    /\ education_section_text # ""
    /\ \E j \in DOMAIN lines :
          /\ \A q \in education_lines : j > q + 1
          /\ SectionBranch(education_indicators, education_terminators,
                           FALSE, lines[j]) = "header"

\* the strings of an experience entry list
Strings(entries) == [k \in DOMAIN entries |-> entries[k][1]]

\* C10: for every kind the entries are strings and, joined with the newline
\* separators, give back the section text.
C10_SplitLossless ==
    /\ Returned("extract_education") =>
          JoinText(education_entries) = education_section_text
    /\ ExperienceSplitDone =>
          /\ \A k \in DOMAIN experience_entries : experience_entries[k] # None
          /\ JoinText(Strings(experience_entries)) = experience_section_text
    /\ Returned("extract_projects") =>
          JoinText(project_entries) = project_section_text

====
